---- MODULE Spec2Model ----
(***************************************************************************)
(* sebsync: synchronisation of the Standard Ebooks OPDS catalog with a     *)
(* local collection (src/sebsync.py).                                      *)
(*                                                                         *)
(* Spec        one run of sebsync(), from the parsed options to the saved  *)
(*             index, with the server and the file system as environment.  *)
(* SpecTwice   the same, run again after a completed run.                  *)
(* SpecRequest request() against every script of server answers.           *)
(* SpecClassify books_are_different() on every local/remote pair.          *)
(* SpecAuthor  sortable_author() on every name of up to MaxTokens tokens.  *)
(* SpecRetry   request() one HTTP request at a time, and the run.          *)
(*                                                                         *)
(* Reporting is modelled with --quiet off and --verbose on: echoed holds   *)
(* every status the code passes to echo_status.  --debug, --email and      *)
(* --opds only choose what is printed or which server is asked.            *)
(***************************************************************************)
EXTENDS Integers, Sequences, FiniteSets, TLC

VARIABLES
    options,        \* Options, after lines 431-436
    feed,           \* the OPDS feed the server holds (sequence of atom:entry)
    fs,             \* file system: path -> [data, mtime]
    indexfile,      \* the persisted index: [exists, map]
    before,         \* fs and indexfile as they were when the run started
    index,          \* sebsync(): index
    remote_ebooks,  \* global dict, in insertion order
    local_ebooks,   \* global list
    pc,             \* position of sebsync()
    ri,             \* position in remote_ebooks.values()
    mi,             \* position in matching_local_ebooks / in local_ebooks
    download_new,   \* sebsync(): download_new
    dl,             \* download_ebook() in progress
    echoed,         \* echo_status calls, in order
    sent,           \* HTTP requests sent in this run
    classified,     \* results of books_are_different in this run, by path
    installed,      \* paths download.replace(path) was applied to in this run
    unlinked,       \* paths path.unlink() was applied to in this run
    error,          \* why the run ended, when it did not complete
    run,            \* number of the run
    catalog,        \* status of the response to the catalog request (0: none yet)
    script,         \* SpecRequest: the server's answers, by attempt
    outcome,        \* SpecRequest: what request() did
    pair,           \* SpecClassify: the inputs of books_are_different
    verdict,        \* SpecClassify: what books_are_different did
    full_name,      \* SpecAuthor: the argument of sortable_author
    sortable        \* SpecAuthor: what sortable_author returned

runVars == <<options, feed, fs, indexfile, before, index, remote_ebooks, local_ebooks,
             pc, ri, mi, download_new, dl, echoed, sent, classified, installed,
             unlinked, error, run, catalog>>
unitVars == <<script, outcome, pair, verdict, full_name, sortable>>
vars == <<runVars, unitVars>>

(***************************************************************************)
(* Bounds of the model.                                                    *)
(***************************************************************************)
MaxChunks == 2        \* chunks in a streamed body
MaxRuns == 2          \* runs in succession (SpecTwice)
MaxTime == 3          \* timestamps of SpecClassify range over 0..MaxTime
TicksPerSecond == 2   \* clock ticks in one second: a timestamp may carry a fraction
MaxTokens == 4        \* tokens in an author's name (SpecAuthor)

(***************************************************************************)
(* Generic helpers for dicts and sets.                                     *)
(***************************************************************************)
EmptyMap == [x \in {} |-> x]
Put(f, k, v) == [x \in DOMAIN f \cup {k} |-> IF x = k THEN v ELSE f[x]]
Pop(f, k) == [x \in DOMAIN f \ {k} |-> f[x]]
Range(s) == {s[i] : i \in DOMAIN s}

RECURSIVE SetToSeq(_)
SetToSeq(S) == IF S = {} THEN <<>>
               ELSE LET x == CHOOSE y \in S : TRUE IN <<x>> \o SetToSeq(S \ {x})

(***************************************************************************)
(* Strings.  A string is the sequence of its whitespace-separated tokens;  *)
(* a token is a word and the number of commas that trail it.               *)
(***************************************************************************)
Tok(w) == [w |-> w, c |-> 0]

(***************************************************************************)
(* Timestamps are clock ticks.  A datetime is Datetime(t); an RFC 3339     *)
(* text is Str(z, t): whether it ends in "Z" and the instant it denotes.   *)
(***************************************************************************)
Str(z, t) == [type |-> "str", z |-> z, t |-> t]
Datetime(t) == [type |-> "datetime", z |-> FALSE, t |-> t]

fromisoformat(text) ==
    IF ~text.z THEN [raised |-> TRUE, d |-> Datetime(0)]
    ELSE [raised |-> FALSE, d |-> Datetime(text.t)]

\* strftime("%Y-%m-%dT%H:%M:%SZ") prints whole seconds
toisoformat(d) == Str(TRUE, d.t - (d.t % TicksPerSecond))

(***************************************************************************)
(* request(): the server answers attempt i with script[i].                 *)
(***************************************************************************)
retry_count == 10

RECURSIVE request_loop(_, _)
request_loop(script_, retries) ==
    LET response == script_[retries] IN
    IF response.status_code # 429 THEN [retries |-> retries, response |-> response]
    ELSE IF retries < retry_count THEN request_loop(script_, retries + 1)
    ELSE [retries |-> retries, response |-> response]

request(script_) ==
    LET r == request_loop(script_, 1) IN
    [raised |-> r.retries = retry_count, response |-> r.response, attempts |-> r.retries]

\* a server that answers 429 k times and then with response
Script(k, response) ==
    [i \in 1..retry_count |->
        IF i <= k THEN [status_code |-> 429, headers |-> EmptyMap] ELSE response]

\* how many 429 answers precede the answer, in the runs of Spec
RateLimited == {0, 1, retry_count - 1, retry_count}

Response(status_code, headers) == [status_code |-> status_code, headers |-> headers]

(***************************************************************************)
(* URLs, identifiers and paths.                                            *)
(* A URL is [base, ext].  An identifier is [pre, url]: the number of       *)
(* leading "url:" prefixes and the URL that follows them.                  *)
(* A path is [dir, stem, ext], stem a string.                              *)
(***************************************************************************)
Url(base, ext) == [base |-> base, ext |-> ext]
Id(pre, base) == [pre |-> pre, url |-> Url(base, "")]

strip_id_prefix(id) == IF id.pre > 0 THEN [id EXCEPT !.pre = @ - 1] ELSE id

Path(dir, stem, ext) == [dir |-> dir, stem |-> stem, ext |-> ext]
with_suffix_same(path, suffix) == path

with_suffix(path, suffix) == [path EXCEPT !.ext = suffix]

Dirs == {"books", "books/sub", "out"}
\* the directories below a root, the root included
Under(root) == IF root = "books" THEN {"books", "books/sub"} ELSE {root}

\* options.books.glob("**/*.azw3"), every match being a regular file
glob(files, root, ext) ==
    SetToSeq({p \in DOMAIN files : p.dir \in Under(root) /\ p.ext = ext})

(***************************************************************************)
(* File contents.  A chunk is <<kind, base, i>>; a body is MaxChunks       *)
(* chunks.  SHA-256 is taken to be injective.                              *)
(***************************************************************************)
Body(base, kind) == [i \in 1..MaxChunks |-> <<kind, base, i>>]
OldData(base) == << <<"azw3", base, 0>> >>
Sha256(data) == <<"sha256", data>>

calculate_hash(files, path) == Sha256(files[path].data)

\* get_local_ebook_metadata as download_ebook uses it: "raise" when the file is
\* no ZIP container with the OPF inside, "none" when the identifier is not a
\* Standard Ebooks one, "ok" when a LocalEbook is returned
get_local_ebook_metadata(files, path) ==
    LET data == files[path].data IN
    IF Len(data) = MaxChunks /\ \A i \in 1..MaxChunks : data[i][1] = "epub" /\ data[i][3] = i
    THEN "ok"
    ELSE IF Len(data) = MaxChunks /\ \A i \in 1..MaxChunks : data[i][1] = "foreign"
    THEN "none"
    ELSE "raise"

(***************************************************************************)
(* The catalog the server holds and the clock.                             *)
(***************************************************************************)
Now == 5 * TicksPerSecond            \* the time of this run's writes
EarlyTime == TicksPerSecond          \* before every catalog timestamp
LateTime == 3 * TicksPerSecond

type_selector == {"compatible", "kobo", "advanced", "kindle"}

Entry1 == [identifier |-> Id(1, "b1"), title |-> <<Tok("Flatland")>>,
           author |-> <<Tok("Ursula"), Tok("K."), Tok("Le"), Tok("Guin")>>,
           base |-> "b1",
           updated |-> Str(TRUE, 2 * TicksPerSecond)]
Entry2 == [identifier |-> Id(1, "b2"), title |-> <<Tok("Emma")>>,
           author |-> <<Tok("John"), Tok("Smith"), Tok("Jr.")>>,
           base |-> "b2",
           updated |-> Str(TRUE, 3 * TicksPerSecond + 1)]
Feeds == {<<>>, <<Entry1>>, <<Entry1, Entry2>>}

\* atom:link with the title type_selector[options.type]
Link(entry, type) == Url(entry.base, IF type = "kindle" THEN "azw3" ELSE "epub")

\* the server's answers (after the 429s of the script)
HeadHref(href) == Response(200, [x \in {"Content-Length"} |-> MaxChunks])
HeadId(id) ==
    IF id = Id(0, "a") THEN Response(301, [x \in {"Location"} |-> Url("b2", "")])
    ELSE Response(200, EmptyMap)

(***************************************************************************)
(* sortable_author and ebook_filename.                                     *)
(***************************************************************************)
suffixes == {"Jr.", "Sr.", "Esq.", "PhD"}
Front(s) == SubSeq(s, 1, Len(s) - 1)
Last(s) == s[Len(s)]
AddComma(s) == [s EXCEPT ![Len(s)].c = @ + 1]

sortable_author(author) ==
    IF Len(author) < 2 THEN author
    ELSE LET popped == [Last(author) EXCEPT !.c = 0]        \* split.pop().rstrip(",")
             hasSuffix == popped.w \in suffixes
             last == IF hasSuffix THEN Last(Front(author)) ELSE popped
             split == IF hasSuffix THEN Front(Front(author)) ELSE Front(author)
             r1 == IF split # <<>> THEN AddComma(<<last>>) \o split ELSE <<last>>
         IN  IF hasSuffix THEN AddComma(r1) \o <<popped>> ELSE r1

\* The names of the model hold none of the characters of the replace table and
\* its titles do not end in ".", so neither changes them.
ebook_filename(ebook, naming) ==
    IF naming = "standard"
    THEN [stem |-> <<Tok(ebook.href.base)>>, ext |-> ebook.href.ext]
    ELSE [stem |-> sortable_author(ebook.author) \o <<Tok("-")>> \o ebook.title,
          ext |-> "epub"]

(***************************************************************************)
(* books_are_different and is_deprecated.  Each returns what it decided,   *)
(* how it ended ("none", or the exception that left it) and the number of  *)
(* HTTP requests it sent.                                                  *)
(***************************************************************************)
\* books_are_different without the shortcut of lines 268-273
books_are_different_no_equal(local_ebook, remote_ebook, files, script_) ==
    IF local_ebook.path \notin DOMAIN files
    THEN [error |-> "crash", different |-> FALSE, attempts |-> 0]
    ELSE IF remote_ebook.updated.t > files[local_ebook.path].mtime
    THEN [error |-> "none", different |-> TRUE, attempts |-> 0]
    ELSE LET r == request(script_) IN
         IF r.raised
         THEN [error |-> "retries", different |-> FALSE, attempts |-> r.attempts]
         ELSE [error |-> "none",
               different |-> r.response.headers["Content-Length"]
                             # Len(files[local_ebook.path].data),
               attempts |-> r.attempts]

\* books_are_different without the comparison of lines 277-283
books_are_different_no_mtime(local_ebook, remote_ebook, files, script_) ==
    IF remote_ebook.updated = local_ebook.modified
    THEN [error |-> "none", different |-> FALSE, attempts |-> 0]
    ELSE IF local_ebook.path \notin DOMAIN files
    THEN [error |-> "crash", different |-> FALSE, attempts |-> 0]
    ELSE LET r == request(script_) IN
         IF r.raised
         THEN [error |-> "retries", different |-> FALSE, attempts |-> r.attempts]
         ELSE [error |-> "none",
               different |-> r.response.headers["Content-Length"]
                             # Len(files[local_ebook.path].data),
               attempts |-> r.attempts]

\* books_are_different without the comparison of lines 286-292
books_are_different_no_size(local_ebook, remote_ebook, files, script_) ==
    IF remote_ebook.updated = local_ebook.modified
    THEN [error |-> "none", different |-> FALSE, attempts |-> 0]
    ELSE IF local_ebook.path \notin DOMAIN files
    THEN [error |-> "crash", different |-> FALSE, attempts |-> 0]
    ELSE IF remote_ebook.updated.t > files[local_ebook.path].mtime
    THEN [error |-> "none", different |-> TRUE, attempts |-> 0]
    ELSE LET r == request(script_) IN
         IF r.raised
         THEN [error |-> "retries", different |-> FALSE, attempts |-> r.attempts]
         ELSE [error |-> "none", different |-> FALSE, attempts |-> r.attempts]

books_are_different(local_ebook, remote_ebook, files, script_) ==
    IF remote_ebook.updated = local_ebook.modified
    THEN [error |-> "none", different |-> FALSE, attempts |-> 0]
    ELSE IF local_ebook.path \notin DOMAIN files                 \* stat() raises
    THEN [error |-> "crash", different |-> FALSE, attempts |-> 0]
    ELSE LET stat == [st_mtime |-> files[local_ebook.path].mtime,
                      st_size |-> Len(files[local_ebook.path].data)]
         IN
         IF remote_ebook.updated.t > stat.st_mtime
         THEN [error |-> "none", different |-> TRUE, attempts |-> 0]
         ELSE LET r == request(script_) IN
              IF r.raised
              THEN [error |-> "retries", different |-> FALSE, attempts |-> r.attempts]
              ELSE IF "Content-Length" \notin DOMAIN r.response.headers   \* KeyError
              THEN [error |-> "crash", different |-> FALSE, attempts |-> r.attempts]
              ELSE [error |-> "none",
                    different |-> r.response.headers["Content-Length"] # stat.st_size,
                    attempts |-> r.attempts]

Keys(remotes) == {remotes[i].id : i \in DOMAIN remotes}

is_deprecated(local_ebook, remotes, script_) ==
    LET r == request(script_) IN
    IF r.raised THEN [error |-> "retries", deprecated |-> FALSE]
    ELSE IF r.response.status_code # 301 THEN [error |-> "none", deprecated |-> FALSE]
    ELSE IF "Location" \notin DOMAIN r.response.headers          \* KeyError
    THEN [error |-> "crash", deprecated |-> FALSE]
    ELSE [error |-> "none",
          deprecated |-> [pre |-> 1, url |-> r.response.headers["Location"]] \in Keys(remotes)]

(***************************************************************************)
(* get_remote_ebooks: the parse of the feed into the dict.                 *)
(***************************************************************************)
DictPut(d, ebook) ==
    IF \E i \in DOMAIN d : d[i].id = ebook.id
    THEN [i \in DOMAIN d |-> IF d[i].id = ebook.id THEN ebook ELSE d[i]]
    ELSE Append(d, ebook)

RemoteEbook(entry, type) ==
    [id |-> strip_id_prefix(entry.identifier), title |-> entry.title,
     author |-> entry.author, href |-> Link(entry, type),
     updated |-> fromisoformat(entry.updated).d]

RECURSIVE ParseFeed(_, _, _)
ParseFeed(entries, type, d) ==
    IF entries = <<>> THEN d
    ELSE ParseFeed(Tail(entries), type, DictPut(d, RemoteEbook(Head(entries), type)))

(***************************************************************************)
(* get_local_ebooks, the kindle branch: the records found and the paths    *)
(* reported unknown.                                                       *)
(***************************************************************************)
RECURSIVE ScanKindle(_, _, _)
ScanKindle(paths, files, index_) ==
    IF paths = <<>> THEN [ebooks |-> <<>>, unknown |-> <<>>]
    ELSE LET path == Head(paths)
             rest == ScanKindle(Tail(paths), files, index_)
             hexdigest == calculate_hash(files, path)
         IN
         IF hexdigest \notin DOMAIN index_ THEN rest
         ELSE LET entry == index_[hexdigest] IN
              \* fromisoformat(None) and fromisoformat of a text without "Z" raise
              IF "modified" \notin DOMAIN entry \/ fromisoformat(entry.modified).raised
              THEN [rest EXCEPT !.unknown = <<path>> \o @]
              ELSE [rest EXCEPT !.ebooks =
                       <<[id |-> entry.id, title |-> entry.title, path |-> path,
                          modified |-> fromisoformat(entry.modified).d]>> \o @]

(***************************************************************************)
(* The state a run starts from.                                            *)
(***************************************************************************)
parse_options_as_given(kwargs) == kwargs

\* sebsync(), lines 429-436
parse_options(kwargs) == [kwargs EXCEPT !.update = kwargs.force_update \/ @]

Kwargs == [books : {"books"}, downloads : Dirs, dry_run : BOOLEAN,
           force_update : BOOLEAN, naming : {"standard", "sortable"},
           remove : BOOLEAN, type : type_selector, update : BOOLEAN]

\* the two places of the local collection and what may lie there
PathA == Path("books", <<Tok("b1")>>, "azw3")
PathB == Path("books/sub", <<Tok("copy")>>, "azw3")
KindsA == {"absent", "cur", "old_early", "old_late", "dep"}
KindsB == {"absent", "old_late", "touched", "badindex"}

FileOf(kind) ==
    CASE kind = "cur" -> [data |-> Body("b1", "epub"), mtime |-> LateTime]
      [] kind = "old_early" -> [data |-> OldData("b1"), mtime |-> EarlyTime]
      [] kind = "old_late" -> [data |-> OldData("b1"), mtime |-> LateTime]
      [] kind = "dep" -> [data |-> OldData("a"), mtime |-> LateTime]
      [] kind = "touched" -> [data |-> Body("b1", "azw3"), mtime |-> LateTime]
      [] kind = "badindex" -> [data |-> OldData("bad"), mtime |-> LateTime]

\* what an earlier run wrote into the index for such a file
IndexEntryOf(kind) ==
    CASE kind = "cur" -> [id |-> Id(0, "b1"), title |-> Entry1.title,
                          modified |-> toisoformat(fromisoformat(Entry1.updated).d)]
      [] kind \in {"old_early", "old_late", "touched"} ->
                         [id |-> Id(0, "b1"), title |-> Entry1.title,
                          modified |-> Str(TRUE, 0)]
      [] kind = "dep" -> [id |-> Id(0, "a"), title |-> <<Tok("Retired")>>,
                          modified |-> Str(TRUE, 0)]
      [] kind = "badindex" -> [id |-> Id(0, "b1"), title |-> Entry1.title]

Ghost == Sha256(OldData("ghost"))
GhostEntry == [id |-> Id(0, "ghost"), title |-> <<Tok("Ghost")>>, modified |-> Str(TRUE, 0)]

InitFiles(a, b) ==
    LET places == (IF a = "absent" THEN {} ELSE {<<PathA, a>>})
                  \cup (IF b = "absent" THEN {} ELSE {<<PathB, b>>})
    IN [p \in {x[1] : x \in places} |-> FileOf((CHOOSE x \in places : x[1] = p)[2])]

InitIndex(a, b) ==
    LET kinds == {a, b} \ {"absent"}
        keys == {Sha256(FileOf(k).data) : k \in kinds} \cup {Ghost}
    IN [h \in keys |->
           IF h = Ghost THEN GhostEntry
           ELSE IndexEntryOf(CHOOSE k \in kinds : Sha256(FileOf(k).data) = h)]

NoDl == [caller |-> "none"]

\* sebsync(), lines 438-448
LoadIndex(opts, file) ==
    IF opts.type = "kindle" /\ file.exists THEN file.map ELSE EmptyMap

NotCalled == [called |-> FALSE]

IdleUnit ==
    /\ script = <<>>
    /\ outcome = NotCalled
    /\ pair = [given |-> FALSE]
    /\ verdict = NotCalled
    /\ full_name = <<>>
    /\ sortable = NotCalled

Init ==
    /\ \E kwargs \in Kwargs : options = parse_options(kwargs)
    /\ feed \in Feeds
    /\ \E a \in KindsA, b \in KindsB, cached \in BOOLEAN :
          /\ fs = InitFiles(a, b)
          /\ indexfile = [exists |-> cached,
                          map |-> IF cached THEN InitIndex(a, b) ELSE EmptyMap]
    /\ before = [fs |-> fs, indexfile |-> indexfile]
    /\ index = LoadIndex(options, indexfile)
    /\ remote_ebooks = <<>>
    /\ local_ebooks = <<>>
    /\ pc = "remote"
    /\ ri = 1
    /\ mi = 1
    /\ download_new = TRUE
    /\ dl = NoDl
    /\ echoed = <<>>
    /\ sent = {}
    /\ classified = EmptyMap
    /\ installed = {}
    /\ unlinked = {}
    /\ error = "none"
    /\ run = 1
    /\ catalog = 0
    /\ IdleUnit

(***************************************************************************)
(* The run.                                                                *)
(***************************************************************************)
Echo(path, status) == [path |-> path, status |-> status]
Req(method, url) == [method |-> method, url |-> url]

Abort(reason) == pc' = "aborted" /\ error' = reason

\* get_remote_ebooks() that takes an empty catalog for a catalog
get_remote_ebooks_empty_ok(response, entries, type) ==
    IF response.status_code # 200 THEN [error |-> "catalog", remote_ebooks |-> <<>>]
    ELSE [error |-> "none", remote_ebooks |-> ParseFeed(entries, type, <<>>)]

\* get_remote_ebooks(), from the response on (lines 143-159)
get_remote_ebooks(response, entries, type) ==
    IF response.status_code # 200 THEN [error |-> "catalog", remote_ebooks |-> <<>>]
    ELSE LET parsed == ParseFeed(entries, type, <<>>) IN
         [error |-> IF parsed = <<>> THEN "catalog" ELSE "none",
          remote_ebooks |-> parsed]

\* get_remote_ebooks()
GetRemoteEbooks ==
    /\ pc = "remote"
    /\ \E k \in RateLimited, status_code \in {200, 401} :
          LET r == request(Script(k, Response(status_code, EmptyMap)))
              got == get_remote_ebooks(r.response, feed, options.type)
          IN
          /\ sent' = sent \cup {Req("GET", Url("opds", ""))}
          /\ IF r.raised
             THEN Abort("retries") /\ UNCHANGED <<remote_ebooks, catalog>>
             ELSE /\ catalog' = r.response.status_code
                  /\ remote_ebooks' = got.remote_ebooks
                  /\ IF got.error # "none" THEN Abort(got.error)
                     ELSE pc' = "local" /\ UNCHANGED error
    /\ UNCHANGED <<options, feed, fs, indexfile, before, index, local_ebooks, ri, mi,
                   download_new, dl, echoed, classified, installed, unlinked, run>>
    /\ UNCHANGED unitVars

RECURSIVE EchoAll(_, _)
EchoAll(paths, status) ==
    IF paths = <<>> THEN <<>>
    ELSE <<Echo(Head(paths), status)>> \o EchoAll(Tail(paths), status)

\* get_local_ebooks(index).  Outside the kindle branch `path` is bound nowhere:
\* the try raises UnboundLocalError and so does the except clause.
GetLocalEbooks ==
    /\ pc = "local"
    /\ IF options.type = "kindle"
       THEN LET scan == ScanKindle(glob(fs, options.books, "azw3"), fs, index) IN
            /\ local_ebooks' = scan.ebooks
            /\ echoed' = echoed \o EchoAll(scan.unknown, "UNKNOWN")
            /\ pc' = "match"
            /\ UNCHANGED error
       ELSE /\ Abort("unbound")
            /\ UNCHANGED <<local_ebooks, echoed>>
    /\ UNCHANGED <<options, feed, fs, indexfile, before, catalog, index, remote_ebooks, ri, mi,
                   download_new, dl, sent, classified, installed, unlinked, run>>
    /\ UNCHANGED unitVars

\* matching_local_ebooks of the remote ebook at hand
Matching == SelectSeq(local_ebooks, LAMBDA b : b.id = remote_ebooks[ri].id)

NextLocal == ri' = ri /\ mi' = mi + 1 /\ pc' = "match"
NextRemote ==
    /\ ri' = ri + 1
    /\ mi' = 1
    /\ pc' = IF ri + 1 > Len(remote_ebooks) THEN "extras" ELSE "match"
Return(caller) == IF caller = "update" THEN NextLocal ELSE NextRemote

\* download_ebook(url, path, status) up to the opening of the temp file; the
\* caller goes on at Return(caller) when it returns
download_ebook(url, path, status, caller, sentNow, old_hexdigest) ==
    /\ echoed' = Append(echoed, Echo(path, status))
    /\ IF options.dry_run
       THEN /\ sent' = sentNow
            /\ Return(caller)
            /\ UNCHANGED <<fs, dl, error>>
       ELSE \E k \in RateLimited, status_code \in {200, 404}, kind \in {"epub", "azw3"} :
            LET r == request(Script(k, Response(status_code, EmptyMap)))
                download == with_suffix(path, "sebsync")
            IN
            /\ sent' = sentNow \cup {Req("GET", url)}
            /\ IF r.raised
               THEN Abort("retries") /\ UNCHANGED <<fs, dl, ri, mi>>
               ELSE IF r.response.status_code # 200
               THEN Abort("download") /\ UNCHANGED <<fs, dl, ri, mi>>
               ELSE /\ fs' = Put(fs, download, [data |-> <<>>, mtime |-> Now])
                    /\ dl' = [caller |-> caller, url |-> url, path |-> path,
                              body |-> Body(url.base, kind),
                              old_hexdigest |-> old_hexdigest]
                    /\ pc' = "stream"
                    /\ UNCHANGED <<error, ri, mi>>

\* remove() without the test of options.dry_run
RemoveOrReport_always(path) ==
    IF options.remove
    THEN /\ echoed' = Append(echoed, Echo(path, "REMOVE"))
         /\ fs' = Pop(fs, path)
         /\ unlinked' = unlinked \cup {path}
    ELSE /\ echoed' = Append(echoed, Echo(path, "OUTDATED"))
         /\ UNCHANGED <<fs, unlinked>>

\* a removal that nobody asked for
RemoveOrReport_unasked(path) ==
    /\ echoed' = Append(echoed, Echo(path, "REMOVE"))
    /\ IF options.dry_run THEN UNCHANGED <<fs, unlinked>>
       ELSE fs' = Pop(fs, path) /\ unlinked' = unlinked \cup {path}

\* remove(local_ebook), or the report that stands for it
RemoveOrReport(path) ==
    IF options.remove
    THEN /\ echoed' = Append(echoed, Echo(path, "REMOVE"))
         /\ IF options.dry_run THEN UNCHANGED <<fs, unlinked>>
            ELSE fs' = Pop(fs, path) /\ unlinked' = unlinked \cup {path}
    ELSE /\ echoed' = Append(echoed, Echo(path, "OUTDATED"))
         /\ UNCHANGED <<fs, unlinked>>

IndexWithout(hexdigest) ==
    IF options.type = "kindle" /\ ~options.dry_run THEN Pop(index, hexdigest) ELSE index

\* download_new after one matching local ebook (lines 459 and 486)
DownloadNewAfter_forgotten(current) == download_new

DownloadNewAfter(current) ==
    IF options.update THEN FALSE
    ELSE IF current THEN FALSE
    ELSE download_new

\* one pass of the loop of lines 457-488, up to the point where download_ebook
\* waits for the body
MatchLocal ==
    /\ pc = "match"
    /\ ri <= Len(remote_ebooks)
    /\ mi <= Len(Matching)
    /\ \E k \in RateLimited :
       LET remote_ebook == remote_ebooks[ri]
           local_ebook == Matching[mi]
           path == local_ebook.path
           forced == options.update /\ options.force_update
           cmp == IF forced THEN [error |-> "none", different |-> TRUE, attempts |-> 0]
                  ELSE books_are_different(local_ebook, remote_ebook, fs,
                                           Script(k, HeadHref(remote_ebook.href)))
           sentNow == IF cmp.attempts > 0
                      THEN sent \cup {Req("HEAD", remote_ebook.href)} ELSE sent
           failure == IF cmp.error # "none" THEN cmp.error
                      ELSE IF cmp.different /\ path \notin DOMAIN fs
                      THEN "crash"                         \* calculate_hash raises
                      ELSE "none"
       IN
       /\ classified' = IF forced \/ cmp.error # "none" THEN classified
                        ELSE Put(classified, path, cmp.different)
       /\ download_new' = DownloadNewAfter(failure = "none" /\ ~cmp.different)
       /\ IF failure # "none"
          THEN /\ Abort(failure)
               /\ sent' = sentNow
               /\ UNCHANGED <<fs, index, unlinked, dl, echoed, ri, mi>>
          ELSE IF options.update /\ cmp.different
          THEN /\ download_ebook(remote_ebook.href, path, "UPDATE", "update", sentNow,
                                 calculate_hash(fs, path))
               /\ UNCHANGED <<index, unlinked>>
          ELSE IF cmp.different
          THEN /\ RemoveOrReport(path)
               /\ index' = IndexWithout(calculate_hash(fs, path))
               /\ sent' = sentNow
               /\ NextLocal
               /\ UNCHANGED <<dl, error>>
          ELSE /\ echoed' = Append(echoed, Echo(path, "CURRENT"))
               /\ sent' = sentNow
               /\ NextLocal
               /\ UNCHANGED <<fs, index, unlinked, dl, error>>
    /\ UNCHANGED <<options, feed, indexfile, before, catalog, remote_ebooks, local_ebooks,
                   installed, run>>
    /\ UNCHANGED unitVars

\* lines 489-491, after the last matching local ebook
EndMatches ==
    /\ pc = "match"
    /\ ri <= Len(remote_ebooks)
    /\ mi > Len(Matching)
    /\ download_new' = TRUE
    /\ IF download_new
       THEN LET name == ebook_filename(remote_ebooks[ri], options.naming)
                path == Path(options.downloads, name.stem, name.ext)
            IN download_ebook(remote_ebooks[ri].href, path, "NEW", "new", sent,
                              Sha256(<<>>))
       ELSE NextRemote /\ UNCHANGED <<fs, dl, echoed, sent, error>>
    /\ UNCHANGED <<options, feed, indexfile, before, catalog, index, remote_ebooks, local_ebooks,
                   classified, installed, unlinked, run>>
    /\ UNCHANGED unitVars

Download == with_suffix(dl.path, "sebsync")

\* file.write(chunk)
Stream ==
    /\ pc = "stream"
    /\ Len(fs[Download].data) < Len(dl.body)
    /\ fs' = [fs EXCEPT ![Download].data = Append(@, dl.body[Len(@) + 1])]
    /\ UNCHANGED <<options, feed, indexfile, before, catalog, index, remote_ebooks, local_ebooks,
                   pc, ri, mi, download_new, dl, echoed, sent, classified, installed,
                   unlinked, error, run>>
    /\ UNCHANGED unitVars

\* iter_content raises: the connection broke before the body was complete
TransportFailure ==
    /\ pc = "stream"
    /\ Len(fs[Download].data) < Len(dl.body)
    /\ Abort("transport")
    /\ UNCHANGED <<options, feed, fs, indexfile, before, catalog, index, remote_ebooks,
                   local_ebooks, ri, mi, download_new, dl, echoed, sent, classified,
                   installed, unlinked, run>>
    /\ UNCHANGED unitVars

\* the process is killed during the transfer
Kill ==
    /\ pc = "stream"
    /\ Abort("killed")
    /\ UNCHANGED <<options, feed, fs, indexfile, before, catalog, index, remote_ebooks,
                   local_ebooks, ri, mi, download_new, dl, echoed, sent, classified,
                   installed, unlinked, run>>
    /\ UNCHANGED unitVars

IndexEntry(remote_ebook) ==
    [id |-> remote_ebook.id, title |-> remote_ebook.title,
     modified |-> remote_ebook.updated]

\* an update that drops the old entry without comparing the hashes
IndexAfter_always_pop(index_, caller, old_hexdigest, new_hexdigest, entry) ==
    IF caller = "update"
    THEN Pop(Put(index_, new_hexdigest, entry), old_hexdigest)
    ELSE Put(index_, new_hexdigest, entry)

\* lines 464-473 after an update, lines 493-498 after a new download
IndexAfter(index_, caller, old_hexdigest, new_hexdigest, entry) ==
    LET put == Put(index_, new_hexdigest, entry) IN
    IF caller = "update" /\ old_hexdigest # new_hexdigest
    THEN Pop(put, old_hexdigest)
    ELSE put

\* download.replace(path)
Replace(files, download, path) ==
    IF download = path THEN files
    ELSE Pop(Put(files, path, files[download]), download)

\* a failed verification that deletes the temp file
KeepDownload_unlinked(files, download) == Pop(files, download)

\* lines 228-232: the exception leaves download_ebook without touching a file
KeepDownload(files, download) == files

\* download_ebook, lines 228-233, and the caller's lines that follow its return
\* (463-473 or 492-498)
Install ==
    /\ pc = "stream"
    /\ Len(fs[Download].data) = Len(dl.body)
    /\ IF get_local_ebook_metadata(fs, Download) # "ok"
       THEN /\ Abort("corrupt")
            /\ fs' = KeepDownload(fs, Download)
            /\ UNCHANGED <<index, installed, dl, ri, mi, download_new>>
       ELSE LET files == Replace(fs, Download, dl.path)
                new_hexdigest == calculate_hash(files, dl.path)
            IN
            /\ fs' = files
            /\ installed' = installed \cup {dl.path}
            /\ dl' = NoDl
            /\ index' = IF options.type = "kindle" /\ ~options.dry_run
                        THEN IndexAfter(index, dl.caller, dl.old_hexdigest, new_hexdigest,
                                        IndexEntry(remote_ebooks[ri]))
                        ELSE index
            /\ Return(dl.caller)
            /\ download_new' = IF dl.caller = "new" THEN TRUE ELSE download_new
            /\ UNCHANGED error
    /\ UNCHANGED <<options, feed, indexfile, before, catalog, remote_ebooks, local_ebooks, echoed,
                   sent, classified, unlinked, run>>
    /\ UNCHANGED unitVars

\* one pass of the loop of lines 500-511
ExtraLocal ==
    /\ pc = "extras"
    /\ mi <= Len(local_ebooks)
    /\ LET local_ebook == local_ebooks[mi]
           path == local_ebook.path
       IN
       IF local_ebook.id \in Keys(remote_ebooks)
       THEN UNCHANGED <<fs, index, unlinked, echoed, sent, error>> /\ pc' = "extras"
       ELSE \E k \in RateLimited :
            LET dep == is_deprecated(local_ebook, remote_ebooks,
                                     Script(k, HeadId(local_ebook.id)))
                failure == IF dep.error # "none" THEN dep.error
                           ELSE IF dep.deprecated /\ path \notin DOMAIN fs THEN "crash"
                           ELSE "none"
            IN
            /\ sent' = sent \cup {Req("HEAD", local_ebook.id.url)}
            /\ IF failure # "none"
               THEN Abort(failure) /\ UNCHANGED <<fs, index, unlinked, echoed>>
               ELSE IF dep.deprecated
               THEN /\ RemoveOrReport(path)
                    /\ index' = IndexWithout(calculate_hash(fs, path))
                    /\ pc' = "extras"
                    /\ UNCHANGED error
               ELSE /\ echoed' = Append(echoed, Echo(path, "EXTRA"))
                    /\ pc' = "extras"
                    /\ UNCHANGED <<fs, index, unlinked, error>>
    /\ mi' = mi + 1
    /\ UNCHANGED <<options, feed, indexfile, before, catalog, remote_ebooks, local_ebooks, ri,
                   download_new, dl, classified, installed, run>>
    /\ UNCHANGED unitVars

Prune_nothing(index_, files, opts) == index_

Prune_everything(index_, files, opts) == EmptyMap

\* lines 513-529: the index without the keys that are no hash of a local file
Prune(index_, files, opts) ==
    LET scanned == Range(glob(files, opts.books, "azw3"))
                   \cup (IF opts.downloads # opts.books
                         THEN Range(glob(files, opts.downloads, "azw3")) ELSE {})
        local_files == {calculate_hash(files, p) : p \in scanned}
        index_orphans == DOMAIN index_ \ local_files
    IN [h \in DOMAIN index_ \ index_orphans |-> index_[h]]

\* json.dump(index, f, default=toisoformat)
Dump(index_) ==
    [h \in DOMAIN index_ |->
        IF "modified" \in DOMAIN index_[h] /\ index_[h].modified.type = "datetime"
        THEN [index_[h] EXCEPT !.modified = toisoformat(@)]
        ELSE index_[h]]

\* lines 513-541, after the last local ebook
Finish ==
    /\ pc = "extras"
    /\ mi > Len(local_ebooks)
    /\ IF options.type = "kindle" /\ ~options.dry_run
       THEN /\ index' = Prune(index, fs, options)
            /\ indexfile' = [exists |-> TRUE, map |-> Dump(index')]
       ELSE UNCHANGED <<index, indexfile>>
    /\ pc' = "done"
    /\ UNCHANGED <<options, feed, fs, before, catalog, remote_ebooks, local_ebooks, ri, mi,
                   download_new, dl, echoed, sent, classified, installed, unlinked,
                   error, run>>
    /\ UNCHANGED unitVars

\* the program is started again with the same options
Rerun ==
    /\ pc = "done"
    /\ run < MaxRuns
    /\ run' = run + 1
    /\ before' = [fs |-> fs, indexfile |-> indexfile]
    /\ index' = LoadIndex(options, indexfile)
    /\ remote_ebooks' = <<>>
    /\ local_ebooks' = <<>>
    /\ pc' = "remote"
    /\ ri' = 1
    /\ mi' = 1
    /\ download_new' = TRUE
    /\ echoed' = <<>>
    /\ sent' = {}
    /\ classified' = EmptyMap
    /\ installed' = {}
    /\ unlinked' = {}
    /\ catalog' = 0
    /\ UNCHANGED <<options, feed, fs, indexfile, dl, error>>
    /\ UNCHANGED unitVars

Next ==
    \/ GetRemoteEbooks
    \/ GetLocalEbooks
    \/ MatchLocal
    \/ EndMatches
    \/ Stream
    \/ TransportFailure
    \/ Kill
    \/ Install
    \/ ExtraLocal
    \/ Finish

Spec == Init /\ [][Next]_vars

SpecTwice == Init /\ [][Next \/ Rerun]_vars

(***************************************************************************)
(* request() and books_are_different() on their own.                       *)
(***************************************************************************)
IdleRun ==
    /\ options = [type |-> "none"]
    /\ feed = <<>>
    /\ fs = EmptyMap
    /\ indexfile = [exists |-> FALSE, map |-> EmptyMap]
    /\ before = [fs |-> EmptyMap, indexfile |-> [exists |-> FALSE, map |-> EmptyMap]]
    /\ index = EmptyMap
    /\ remote_ebooks = <<>>
    /\ local_ebooks = <<>>
    /\ pc = "idle"
    /\ ri = 1
    /\ mi = 1
    /\ download_new = TRUE
    /\ dl = NoDl
    /\ echoed = <<>>
    /\ sent = {}
    /\ classified = EmptyMap
    /\ installed = {}
    /\ unlinked = {}
    /\ error = "none"
    /\ run = 1
    /\ catalog = 0

\* what the server may answer to one attempt
Answers == {Response(c, EmptyMap) : c \in {200, 404, 429}}

InitRequest ==
    /\ IdleRun
    /\ script \in [1..retry_count -> Answers]
    /\ outcome = NotCalled
    /\ pair = [given |-> FALSE]
    /\ verdict = NotCalled
    /\ full_name = <<>>
    /\ sortable = NotCalled

\* one call of request(**kwargs)
Request ==
    /\ ~outcome.called
    /\ outcome' = [called |-> TRUE, result |-> request(script)]
    /\ UNCHANGED <<script, pair, verdict, full_name, sortable>>
    /\ UNCHANGED runVars

SpecRequest == InitRequest /\ [][Request]_vars

Pairs == [modified : 0..MaxTime, updated : 0..MaxTime, exists : BOOLEAN,
          st_mtime : 0..MaxTime, st_size : 1..MaxChunks,
          content_length : 1..MaxChunks, limited : RateLimited]

InitClassify ==
    /\ IdleRun
    /\ script = <<>>
    /\ outcome = NotCalled
    /\ pair \in Pairs
    /\ verdict = NotCalled
    /\ full_name = <<>>
    /\ sortable = NotCalled

PairLocal == [id |-> Id(0, "b1"), title |-> Entry1.title, path |-> PathA,
              modified |-> Datetime(pair.modified)]
PairRemote == [id |-> Id(0, "b1"), title |-> Entry1.title, author |-> Entry1.author,
               href |-> Link(Entry1, "kindle"), updated |-> Datetime(pair.updated)]
PairFiles ==
    IF pair.exists
    THEN [p \in {PathA} |-> [data |-> [i \in 1..pair.st_size |-> <<"azw3", "b1", i>>],
                             mtime |-> pair.st_mtime]]
    ELSE EmptyMap
PairScript ==
    Script(pair.limited,
           Response(200, [x \in {"Content-Length"} |-> pair.content_length]))

\* one call of books_are_different(local_ebook, remote_ebook)
Classify ==
    /\ ~verdict.called
    /\ verdict' = [called |-> TRUE,
                   result |-> books_are_different(PairLocal, PairRemote, PairFiles,
                                                  PairScript)]
    /\ UNCHANGED <<script, outcome, pair, full_name, sortable>>
    /\ UNCHANGED runVars

SpecClassify == InitClassify /\ [][Classify]_vars

\* request() one statement at a time.  outcome is the frame of the call: where
\* it is, the loop variable, the last response and the requests sent so far.
InitAttempts ==
    /\ IdleRun
    /\ script \in [1..retry_count -> Answers]
    /\ outcome = [at |-> "loop", retries |-> 0, requests |-> 0,
                  response |-> Response(0, EmptyMap)]
    /\ pair = [given |-> FALSE]
    /\ verdict = NotCalled
    /\ full_name = <<>>
    /\ sortable = NotCalled

\* the server's answer to request number i: after the script it goes on as it
\* ended
Answer(i) == IF i \in DOMAIN script THEN script[i] ELSE script[Len(script)]

\* a loop that retries as long as the answer is 429
ShouldRetry_unbounded(response, retries) == response.status_code = 429

\* lines 121-124: whether the for loop goes into another pass
ShouldRetry(response, retries) ==
    response.status_code = 429 /\ retries < retry_count

\* one pass of the loop of lines 121-127: one HTTP request and its answer
Attempt ==
    /\ pc = "idle"
    /\ outcome.at = "loop"
    /\ LET retries == outcome.retries + 1
           response == Answer(retries)
       IN outcome' = [at |-> IF ShouldRetry(response, retries) THEN "loop" ELSE "after",
                      retries |-> retries,
                      requests |-> outcome.requests + 1,
                      response |-> response]
    /\ UNCHANGED <<script, pair, verdict, full_name, sortable>>
    /\ UNCHANGED runVars

\* lines 128-132, after the loop
Leave ==
    /\ pc = "idle"
    /\ outcome.at = "after"
    /\ outcome' = [outcome EXCEPT
                      !.at = IF outcome.retries = retry_count THEN "raised" ELSE "returned"]
    /\ UNCHANGED <<script, pair, verdict, full_name, sortable>>
    /\ UNCHANGED runVars

\* every HTTP request is answered and the thread runs on
SpecRetry ==
    /\ Init \/ InitAttempts
    /\ [][Next \/ Attempt \/ Leave]_vars
    /\ WF_vars(Attempt) /\ WF_vars(Leave)

\* the tokens of the names: given names, a particle, surnames and suffixes, each
\* with or without a trailing comma
Tokens ==
    [w : {"Ursula", "K.", "Le", "Guin", "John", "Smith", "Jr.", "PhD"}, c : {0, 1}]

InitAuthor ==
    /\ IdleRun
    /\ script = <<>>
    /\ outcome = NotCalled
    /\ pair = [given |-> FALSE]
    /\ verdict = NotCalled
    /\ \E n \in 0..MaxTokens : full_name \in [1..n -> Tokens]
    /\ sortable = NotCalled

\* one call of sortable_author(author)
SortableAuthor ==
    /\ ~sortable.called
    /\ sortable' = [called |-> TRUE, result |-> sortable_author(full_name)]
    /\ UNCHANGED <<script, outcome, pair, verdict, full_name>>
    /\ UNCHANGED runVars

SpecAuthor == InitAuthor /\ [][SortableAuthor]_vars

(***************************************************************************)
(* Claims about request() (SpecRequest).                                   *)
(***************************************************************************)
FirstAnswered(s) ==
    CHOOSE i \in 1..retry_count :
        s[i].status_code # 429 /\ \A j \in 1..(i - 1) : s[j].status_code = 429

\* C3: request() returns the response of the first attempt that is not answered
\* with 429 whenever there is one among the attempts 1..10, and raises "Too many
\* retries" only when every one of the ten attempts was answered with 429.
C3_ReturnsFirstAnswer ==
    outcome.called =>
        IF \E i \in 1..retry_count : script[i].status_code # 429
        THEN /\ ~outcome.result.raised
             /\ outcome.result.response = script[FirstAnswered(script)]
        ELSE outcome.result.raised

(***************************************************************************)
(* Claims about books_are_different() (SpecClassify).                      *)
(***************************************************************************)
\* C9: when remote.updated equals local.modified, books_are_different returns
\* False and sends no HTTP request, whatever the file's mtime and size are (and
\* whether or not the file is there).
C9_EqualTimestampsCurrent ==
    (verdict.called /\ pair.updated = pair.modified) =>
        /\ verdict.result.error = "none"
        /\ ~verdict.result.different
        /\ verdict.result.attempts = 0

\* C9 witness: equal timestamps on a file that is older than the remote ebook
\* and differs in size from it.
C9_Witness ==
    /\ verdict.called
    /\ pair.updated = pair.modified
    /\ pair.exists
    /\ pair.updated > pair.st_mtime
    /\ pair.st_size # pair.content_length

\* C10 as claimed: whenever remote.updated is greater than the file's mtime,
\* books_are_different returns True and sends no HEAD request.
C10_NewerThanFileDifferent ==
    (verdict.called /\ pair.exists /\ pair.updated > pair.st_mtime) =>
        /\ verdict.result.error = "none"
        /\ verdict.result.different
        /\ verdict.result.attempts = 0

\* C10 amended: whenever remote.updated differs from local.modified and is
\* greater than the file's mtime, books_are_different returns True and sends no
\* HEAD request.
C10_NewerThanFileDifferentUnlessEqual ==
    (verdict.called /\ pair.exists /\ pair.updated # pair.modified
     /\ pair.updated > pair.st_mtime) =>
        /\ verdict.result.error = "none"
        /\ verdict.result.different
        /\ verdict.result.attempts = 0

\* C10 witness: a remote ebook newer than the file, of the same size as the file,
\* with a local timestamp that differs.
C10_Witness ==
    /\ verdict.called
    /\ pair.exists
    /\ pair.updated # pair.modified
    /\ pair.updated > pair.st_mtime
    /\ pair.st_size = pair.content_length
    /\ verdict.result.different

\* the pairs that neither the equality of the timestamps nor the file's mtime
\* decides
Undecided ==
    verdict.called /\ pair.exists /\ pair.updated # pair.modified
    /\ pair.updated <= pair.st_mtime

\* C11 as claimed: on a pair that the timestamps do not decide,
\* books_are_different sends exactly one HEAD request and returns True if and
\* only if the Content-Length differs from the size of the file.
C11_OneHeadSizeDecides ==
    Undecided =>
        /\ verdict.result.error = "none"
        /\ verdict.result.attempts = 1
        /\ verdict.result.different <=> (pair.content_length # pair.st_size)

\* C11 amended: on a pair that the timestamps do not decide, books_are_different
\* calls request() once, which sends one HEAD request and one more for every 429
\* answer, up to 10: exactly one when the first answer is not 429.  It ends
\* either with the "Too many retries" abort of request() or with True if and
\* only if the Content-Length differs from the size of the file.
C11_OneCallSizeDecides ==
    Undecided =>
        /\ verdict.result.attempts =
              IF pair.limited < retry_count THEN pair.limited + 1 ELSE retry_count
        /\ pair.limited = 0 => verdict.result.error = "none"
        /\ verdict.result.error \in {"none", "retries"}
        /\ verdict.result.error = "none" =>
              (verdict.result.different <=> (pair.content_length # pair.st_size))

\* C11 witness: an undecided pair, the HEAD request answered at once with a
\* Content-Length that differs from the size of the file, found different.
C11_Witness ==
    /\ Undecided
    /\ pair.limited = 0
    /\ pair.content_length # pair.st_size
    /\ verdict.result.different
    /\ verdict.result.attempts = 1

(***************************************************************************)
(* Claims about request() and the run (SpecRetry).                         *)
(***************************************************************************)
Ended == pc = "idle" /\ outcome.at \in {"returned", "raised"}

\* C18: whatever the server answers, a call of request() sends at most 10 HTTP
\* requests, one in each pass of its loop, and comes to its end, where it
\* either returns the last response or raises the fatal abort, as request()
\* taken as one step does; and in the run no step follows an abort, the abort
\* of request() included: no further remote or local ebook is processed.
C18_RequestBoundedAndFatal ==
    /\ [](pc = "idle" => /\ outcome.requests <= retry_count
                         /\ outcome.requests = outcome.retries)
    /\ (pc = "idle") ~> Ended
    /\ [](Ended => /\ (outcome.at = "raised") = request(script).raised
                   /\ outcome.requests = request(script).attempts
                   /\ outcome.response = request(script).response)
    /\ [](error = "retries" => pc = "aborted")
    /\ [][pc # "aborted"]_vars

\* C18 witness: ten requests, each answered 429, and the abort raised.
C18_Witness ==
    /\ Ended
    /\ outcome.at = "raised"
    /\ outcome.requests = retry_count
    /\ \A i \in 1..retry_count : script[i].status_code = 429

(***************************************************************************)
(* Claims about sortable_author() (SpecAuthor).                            *)
(***************************************************************************)
\* C17: sortable_author puts the surname group first.  For a name of two or
\* more tokens (none with a trailing comma, none a surname particle) it returns
\* the surname, a comma and the given names, and for a name that ends in a
\* suffix token the same for the name without the suffix, then a comma and the
\* suffix: "John Smith Jr." gives "Smith, John, Jr.".  A particle belongs to
\* the surname: "Ursula K. Le Guin" gives "Le Guin, Ursula K.".
C17_SurnameGroupFirst ==
    LET particles == {"Le"}
        hasSuffix == Last(full_name).w \in suffixes
        core == IF hasSuffix THEN Front(full_name) ELSE full_name
        surname == <<Last(core)>>
        given == Front(core)
        named == IF given # <<>> THEN AddComma(surname) \o given ELSE surname
        expected == IF hasSuffix THEN AddComma(named) \o <<Last(full_name)>> ELSE named
    IN
    (/\ sortable.called
     /\ Len(full_name) >= 2
     /\ \A i \in DOMAIN full_name : full_name[i].c = 0)
    => /\ (\A i \in DOMAIN full_name : full_name[i].w \notin particles) =>
             sortable.result = expected
       /\ full_name = Entry2.author =>
             sortable.result = <<[w |-> "Smith", c |-> 1], [w |-> "John", c |-> 1], Tok("Jr.")>>
       /\ full_name = Entry1.author =>
             sortable.result = <<Tok("Le"), [w |-> "Guin", c |-> 1], Tok("Ursula"), Tok("K.")>>

(***************************************************************************)
(* Claims about the run (Spec).                                            *)
(***************************************************************************)
Echoed(path, status) == Echo(path, status) \in Range(echoed)
Reports(path) == {i \in DOMAIN echoed : echoed[i].path = path}

\* the bodies the server may send for the ebooks of the catalog
ServedBodies ==
    {Body(remote_ebooks[i].href.base, kind) :
        i \in DOMAIN remote_ebooks, kind \in {"epub", "azw3"}}

Verified(path) ==
    fs[path].data \in ServedBodies /\ get_local_ebook_metadata(fs, path) = "ok"

\* C1: at every moment of a run, also while download_ebook streams and after a
\* transport failure, a kill or a failed verification, every file that is not a
\* ".sebsync" temp file holds what it held when the run started or a complete
\* downloaded body that passed the verification.
C1_DestinationNeverPartial ==
    \A p \in DOMAIN fs :
        p.ext # "sebsync" =>
            \/ p \in DOMAIN before.fs /\ fs[p] = before.fs[p]
            \/ Verified(p)

\* C1 witness: the transfer over an existing local ebook broke after the first
\* chunk: the temp file is partial and the ebook is as it was.
C1_Witness ==
    /\ pc = "aborted"
    /\ error = "transport"
    /\ dl.path \in DOMAIN before.fs
    /\ fs[dl.path] = before.fs[dl.path]
    /\ Len(fs[with_suffix(dl.path, "sebsync")].data) = 1

\* C2: a local ebook whose identifier A is not in the catalog, while HEAD A is
\* answered 301 with the URL of an identifier B of the catalog as Location, is
\* reported outdated (or removed, with --remove), never extraneous.
C2_DeprecatedNotExtra ==
    \A j \in DOMAIN local_ebooks :
        LET local_ebook == local_ebooks[j]
            answer == HeadId(local_ebook.id)
        IN
        (/\ remote_ebooks # <<>>
         /\ local_ebook.id \notin Keys(remote_ebooks)
         /\ answer.status_code = 301
         /\ \E i \in DOMAIN remote_ebooks :
               remote_ebooks[i].id.url = answer.headers["Location"])
        => /\ ~Echoed(local_ebook.path, "EXTRA")
           /\ pc = "done" =>
                 Echoed(local_ebook.path, IF options.remove THEN "REMOVE" ELSE "OUTDATED")

DownloadRequests == {r \in sent : r.method = "GET" /\ r.url # Url("opds", "")}

\* the path a new download of remote_ebooks[i] goes to
NewPath(i) ==
    LET name == ebook_filename(remote_ebooks[i], options.naming)
    IN Path(options.downloads, name.stem, name.ext)

\* C5: with --dry-run no file is created, replaced or deleted (temp files
\* included), the persisted index is not written and download_ebook sends no
\* request, while the statuses are reported: at the end of the run every ebook
\* of the catalog without a local ebook is reported new, and every matching local
\* ebook found different is reported as update or as removed.
C5_DryRunChangesNothing ==
    options.dry_run =>
        /\ fs = before.fs
        /\ indexfile = before.indexfile
        /\ DownloadRequests = {}
        /\ installed = {} /\ unlinked = {}
        /\ pc = "done" =>
              /\ \A i \in DOMAIN remote_ebooks :
                    (\A j \in DOMAIN local_ebooks :
                        local_ebooks[j].id # remote_ebooks[i].id)
                    => Echoed(NewPath(i), "NEW")
              /\ \A p \in DOMAIN classified :
                    classified[p] =>
                        \/ options.update /\ Echoed(p, "UPDATE")
                        \/ ~options.update /\ options.remove /\ Echoed(p, "REMOVE")
                        \/ ~options.update /\ ~options.remove /\ Echoed(p, "OUTDATED")

\* C5 witness: a completed dry run that reported a removal and a new download.
C5_Witness ==
    /\ options.dry_run
    /\ pc = "done"
    /\ \E p \in DOMAIN fs : Echoed(p, "REMOVE")
    /\ \E i \in DOMAIN remote_ebooks : Echoed(NewPath(i), "NEW")

\* C8: at the end of a completed run in kindle mode without --dry-run, every key
\* of the persisted index is the hash of a file that exists under the books or
\* the downloads directory, and the key that had no file when the run started is
\* gone.
C8_IndexKeysAreLiveFiles ==
    (pc = "done" /\ options.type = "kindle" /\ ~options.dry_run) =>
        /\ indexfile.exists
        /\ \A h \in DOMAIN indexfile.map :
              \E p \in DOMAIN fs :
                  /\ p.dir \in Under(options.books) \cup Under(options.downloads)
                  /\ calculate_hash(fs, p) = h
        /\ Ghost \notin DOMAIN indexfile.map

\* C8 witness: a completed run that loaded an index with the orphan key and
\* saved an index with a new download in it.
C8_Witness ==
    /\ pc = "done"
    /\ options.type = "kindle"
    /\ ~options.dry_run
    /\ Ghost \in DOMAIN before.indexfile.map
    /\ installed # {}
    /\ DOMAIN indexfile.map # {}

Carries(j, i) == local_ebooks[j].id = remote_ebooks[i].id

\* C6 as claimed: an ebook of the catalog is reported new (and downloaded to the
\* synthesized path) only if no local ebook carries its identifier.
C6_NewOnlyWithoutLocal ==
    \A i \in DOMAIN remote_ebooks :
        Echoed(NewPath(i), "NEW") => \A j \in DOMAIN local_ebooks : ~Carries(j, i)

\* C6 amended: an ebook of the catalog is reported new only if no local ebook
\* carries its identifier, or if update mode is disabled and every local ebook
\* that carries it was found different; with update mode enabled, or with one
\* matching local ebook found current, no new download is made.
C6_NewOnlyWithoutCurrentLocal ==
    \A i \in DOMAIN remote_ebooks :
        Echoed(NewPath(i), "NEW") =>
            \/ \A j \in DOMAIN local_ebooks : ~Carries(j, i)
            \/ /\ ~options.update
               /\ \A j \in DOMAIN local_ebooks :
                     Carries(j, i) =>
                         /\ local_ebooks[j].path \in DOMAIN classified
                         /\ classified[local_ebooks[j].path]

\* C6 witness: update mode disabled, two local copies of one ebook, both found
\* different, and the ebook reported new.
C6_Witness ==
    /\ ~options.update
    /\ \E i \in DOMAIN remote_ebooks :
          /\ Echoed(NewPath(i), "NEW")
          /\ Cardinality({j \in DOMAIN local_ebooks : Carries(j, i)}) = 2

\* C7: --force-update implies update mode; and at the end of a run in update
\* mode every local ebook that matches an ebook of the catalog has exactly one
\* report: update, with the remote body installed at its own path (unless
\* --dry-run), when the update is forced or the ebook was found different, and
\* current, with the file as it was, otherwise.
C7_UpdateModeVerdicts ==
    /\ options.force_update => options.update
    /\ (pc = "done" /\ options.update) =>
          \A j \in DOMAIN local_ebooks, i \in DOMAIN remote_ebooks :
              LET path == local_ebooks[j].path IN
              Carries(j, i) =>
                  /\ Cardinality(Reports(path)) = 1
                  /\ IF options.force_update \/ classified[path]
                     THEN /\ Echoed(path, "UPDATE")
                          /\ ~options.dry_run =>
                                /\ path \in installed
                                /\ fs[path].data = Body(remote_ebooks[i].href.base, "epub")
                     ELSE /\ Echoed(path, "CURRENT")
                          /\ path \notin installed
                          /\ fs[path] = before.fs[path]

\* C7 witness: a completed run in update mode, not forced, that updated one
\* local ebook in place and found another one current.
C7_Witness ==
    /\ pc = "done"
    /\ options.update /\ ~options.force_update /\ ~options.dry_run
    /\ \E j \in DOMAIN local_ebooks :
          local_ebooks[j].path \in installed /\ Echoed(local_ebooks[j].path, "UPDATE")
    /\ \E j \in DOMAIN local_ebooks : Echoed(local_ebooks[j].path, "CURRENT")

\* C12: when the verification of the temp file fails, download_ebook raises the
\* corrupt-download error: that step changes no file, so the destination is as
\* it was and the complete temp file stays on disk; the run is over (no step
\* follows an abort); and what the run installed or removed before stays: every
\* installed path holds its verified body and every removed path is gone unless
\* a later download of the run was installed there.
C12_CorruptDownloadAborts ==
    /\ [](error = "corrupt" =>
            /\ pc = "aborted"
            /\ with_suffix(dl.path, "sebsync") \in DOMAIN fs
            /\ fs[with_suffix(dl.path, "sebsync")].data = dl.body
            /\ dl.path \notin installed
            /\ \A p \in installed : p \in DOMAIN fs /\ Verified(p)
            /\ \A p \in unlinked : p \in DOMAIN fs => p \in installed)
    /\ [][/\ pc # "aborted"
          /\ error' = "corrupt" =>
                /\ fs' = fs
                /\ installed' = installed /\ unlinked' = unlinked
                /\ index' = index /\ indexfile' = indexfile]_vars

\* C12 witness: a run that removed a local ebook and installed a download, and
\* then ended on a download that failed the verification.
C12_Witness ==
    /\ error = "corrupt"
    /\ installed # {}
    /\ unlinked # {}
    /\ \E p \in unlinked : p \notin DOMAIN fs

\* download_ebook for the new download of remote_ebooks[i] has ended, by its
\* return or by the corrupt-download error, the body having arrived completely
Delivered(i) == ri > i \/ (ri = i /\ error = "corrupt" /\ dl.caller = "new")

\* C13: in kindle mode without --dry-run, once the new download of an ebook of
\* the catalog that no local ebook carries was delivered completely with status
\* 200, the file is at the synthesized path and the index holds, under the hash
\* of that file, the identifier, title and timestamp of the remote ebook; the
\* delivered azw3 resource is not rejected by a verification meant for EPUBs.
C13_KindleNewInstalled ==
    (options.type = "kindle" /\ ~options.dry_run) =>
        \A i \in DOMAIN remote_ebooks :
            ((\A j \in DOMAIN local_ebooks : ~Carries(j, i)) /\ Delivered(i)) =>
                /\ NewPath(i) \in DOMAIN fs
                /\ calculate_hash(fs, NewPath(i)) \in DOMAIN index
                /\ index[calculate_hash(fs, NewPath(i))] = IndexEntry(remote_ebooks[i])

\* C14: when the catalog request is answered with a status other than 200, or
\* with a feed that holds no entry, the run is aborted with the catalog error
\* at once: no local ebook was scanned, no download was requested, no file was
\* created, replaced or removed and the persisted index was not written.  An
\* empty catalog never leads to a completed run.
C14_CatalogFailureAborts ==
    (catalog \notin {0, 200} \/ (catalog = 200 /\ remote_ebooks = <<>>)) =>
        /\ pc = "aborted"
        /\ error = "catalog"
        /\ fs = before.fs
        /\ indexfile = before.indexfile
        /\ installed = {} /\ unlinked = {}
        /\ local_ebooks = <<>> /\ echoed = <<>>
        /\ DownloadRequests = {}

\* C14 witness: the catalog request answered 200 with an empty feed, in kindle
\* mode without --dry-run, with local ebooks and a persisted index at hand.
C14_Witness ==
    /\ catalog = 200
    /\ remote_ebooks = <<>>
    /\ pc = "aborted"
    /\ options.type = "kindle" /\ ~options.dry_run
    /\ DOMAIN fs # {}
    /\ indexfile.exists

\* the index as the run loaded it
LoadedIndex == LoadIndex(options, before.indexfile)

\* the files of the library whose scan raises: in kindle mode those whose index
\* entry holds no timestamp that fromisoformat accepts
Unreadable ==
    {p \in Range(glob(before.fs, options.books, "azw3")) :
        /\ calculate_hash(before.fs, p) \in DOMAIN LoadedIndex
        /\ LET entry == LoadedIndex[calculate_hash(before.fs, p)] IN
           "modified" \notin DOMAIN entry \/ fromisoformat(entry.modified).raised}

\* C15: for every --type, the scan of the library does not abort the run: a
\* file whose scan raises is reported unknown and is not among the local
\* ebooks, every other indexed file of the library is among them, and the run
\* goes on with the reconciliation.
C15_ScanToleratesBadFiles ==
    /\ error # "unbound"
    /\ pc \in {"match", "stream", "extras", "done"} =>
          /\ \A p \in Unreadable :
                /\ Echoed(p, "UNKNOWN")
                /\ \A j \in DOMAIN local_ebooks : local_ebooks[j].path # p
          /\ \A p \in Range(glob(before.fs, options.books, "azw3")) \ Unreadable :
                calculate_hash(before.fs, p) \in DOMAIN LoadedIndex =>
                    \E j \in DOMAIN local_ebooks : local_ebooks[j].path = p

\* the file of a local ebook is as it was when the run started
Untouched(path) == path \in DOMAIN fs /\ fs[path] = before.fs[path]

\* no other file of the library held the same content, hence the same index key
OnlyCopy(path) ==
    \A p \in DOMAIN before.fs : before.fs[p].data = before.fs[path].data => p = path

\* C16: unless files are removed (--remove without --dry-run), (a) with update
\* mode and remove policy disabled a local ebook found different is reported
\* outdated and its file stays as it was, unless a later download of the run
\* is installed at its path, and (b) the index entry of every local ebook whose
\* file is as it was, and the only one of that content, is still in the index
\* under the same identifier.
C16_OutdatedKeepsIndexEntry ==
    ~(options.remove /\ ~options.dry_run) =>
        \A j \in DOMAIN local_ebooks :
            LET path == local_ebooks[j].path
                hexdigest == calculate_hash(before.fs, path)
            IN
            /\ (/\ ~options.update /\ ~options.remove
                /\ path \in DOMAIN classified /\ classified[path])
               => /\ Echoed(path, "OUTDATED")
                  /\ path \notin installed => Untouched(path)
            /\ (Untouched(path) /\ OnlyCopy(path)) =>
                  /\ hexdigest \in DOMAIN index
                  /\ index[hexdigest].id = LoadedIndex[hexdigest].id

\* what is_deprecated answers for the local ebook at path, the server not
\* rate-limiting
FoundDeprecated(path) ==
    \E j \in DOMAIN local_ebooks :
        /\ local_ebooks[j].path = path
        /\ local_ebooks[j].id \notin Keys(remote_ebooks)
        /\ is_deprecated(local_ebooks[j], remote_ebooks,
                         Script(0, HeadId(local_ebooks[j].id))).deprecated

\* C19: in a run, the files that are gone are the files the run unlinked, and a
\* file is unlinked only with --remove, without --dry-run, and when its local
\* ebook was found different from its remote ebook with update mode disabled,
\* or was found deprecated; a file reported current, extra, unknown or update
\* is not unlinked.
C19_DeletedOnlyWhenOutdated ==
    /\ \A p \in DOMAIN before.fs : p \notin DOMAIN fs => p \in unlinked
    /\ \A p \in unlinked :
          /\ options.remove
          /\ ~options.dry_run
          /\ \/ ~options.update /\ p \in DOMAIN classified /\ classified[p]
             \/ FoundDeprecated(p)
          /\ \A status \in {"CURRENT", "EXTRA", "UNKNOWN", "UPDATE"} : ~Echoed(p, status)

\* C19 witness: a completed run that removed an outdated file and left a
\* current one where it was.
C19_Witness ==
    /\ pc = "done"
    /\ \E p \in unlinked : p \notin DOMAIN fs
    /\ \E q \in DOMAIN fs : Echoed(q, "CURRENT") /\ fs[q] = before.fs[q]

\* the step in which download_ebook returns to the update of a local ebook
UpdateInstalled == pc = "stream" /\ dl.caller = "update" /\ pc' = "match"

\* C20: the step that completes an in-place update in kindle mode (without
\* --dry-run) leaves the index with the identifier, title and timestamp of the
\* remote ebook under the hash of the new file, without the entry under the
\* hash of the old file if and only if the two hashes differ, and with every
\* other entry as it was.
C20_UpdateRefreshesIndex ==
    [][(UpdateInstalled /\ options.type = "kindle" /\ ~options.dry_run) =>
          LET old_hexdigest == calculate_hash(fs, dl.path)
              new_hexdigest == calculate_hash(fs', dl.path)
          IN
          /\ fs'[dl.path].data = dl.body
          /\ new_hexdigest \in DOMAIN index'
          /\ index'[new_hexdigest] = IndexEntry(remote_ebooks[ri])
          /\ (old_hexdigest \notin DOMAIN index') <=> (old_hexdigest # new_hexdigest)
          /\ \A h \in (DOMAIN index \cup DOMAIN index') \ {old_hexdigest, new_hexdigest} :
                h \in DOMAIN index /\ h \in DOMAIN index' /\ index'[h] = index[h]]_vars

\* C20 witness: a completed run that updated one file to the content it had
\* (its entry kept) and another one to a new content (its old entry dropped).
C20_Witness ==
    /\ pc = "done"
    /\ options.type = "kindle" /\ ~options.dry_run
    /\ \E p \in installed :
          /\ Echoed(p, "UPDATE")
          /\ calculate_hash(fs, p) = calculate_hash(before.fs, p)
          /\ calculate_hash(fs, p) \in DOMAIN index
    /\ \E q \in installed :
          /\ Echoed(q, "UPDATE")
          /\ calculate_hash(fs, q) # calculate_hash(before.fs, q)
          /\ calculate_hash(before.fs, q) \notin DOMAIN index

\* the run has ended: completed, or aborted by a fatal download error
RunEnded ==
    pc = "done" \/ (pc = "aborted" /\ error \in {"download", "retries", "corrupt"})

\* a complete copy of the body the server holds for remote_ebooks[i] lies in
\* the downloads directory, under a name that is not a temp file's
CopyInDownloads(i) ==
    \E q \in DOMAIN fs :
        /\ q.dir \in Under(options.downloads)
        /\ q.ext # "sebsync"
        /\ \E kind \in {"epub", "azw3"} :
              fs[q].data = Body(remote_ebooks[i].href.base, kind)

\* C21: with update mode disabled, --remove and no --dry-run, when the run has
\* ended, also by a fatal download error, every local ebook whose outdated file
\* the run unlinked has a complete copy of its remote ebook in the downloads
\* directory.
C21_RemovedHasCurrentCopy ==
    (~options.update /\ options.remove /\ ~options.dry_run /\ RunEnded) =>
        \A j \in DOMAIN local_ebooks, i \in DOMAIN remote_ebooks :
            (Carries(j, i) /\ local_ebooks[j].path \in unlinked) => CopyInDownloads(i)

(***************************************************************************)
(* Claims about two runs in succession (SpecTwice).                        *)
(***************************************************************************)
\* C4 as claimed: in a run that follows a completed run, without --dry-run and
\* without --force-update, nothing is installed, whatever the update mode, the
\* remove policy and the downloads directory are.
C4_SecondRunInstallsNothing ==
    (run > 1 /\ ~options.dry_run /\ ~options.force_update) => installed = {}

\* C4 amended: in a run that follows a completed run, without --dry-run and
\* without --force-update, nothing is installed when the downloads directory
\* lies inside the books directory and new files are named after their link
\* (standard naming), for every update mode and remove policy.
C4_SecondRunInstallsNothingInsideBooks ==
    (/\ run > 1
     /\ ~options.dry_run
     /\ ~options.force_update
     /\ options.downloads \in Under(options.books)
     /\ options.naming = "standard")
    => installed = {}

\* C4 witness: a completed second run, the first run having installed a file
\* that the second run compared with the catalog.
C4_Witness ==
    /\ run > 1
    /\ pc = "done"
    /\ ~options.dry_run
    /\ ~options.force_update
    /\ options.downloads \in Under(options.books)
    /\ options.naming = "standard"
    /\ \E p \in DOMAIN before.fs : before.fs[p].mtime = Now /\ p \in DOMAIN classified
====
